---- MODULE Spec2Model ----
(***************************************************************************)
(* A model of the BRACE combinatorial auction: the domain types            *)
(* (src/src/types.rs), the price vector and the equilibrium price solver   *)
(* (src/src/pricing.rs), the allocation search and the three verifiers     *)
(* (src/src/brace.rs) and CombinatorialAuction::run (src/src/auction.rs).  *)
(*                                                                         *)
(* Numbers.  Every f64 of the program is modelled as an exact fixed-point  *)
(* number <<t, f>> that stands for  t * 0.1 + f * 0.5e-9  with             *)
(* 0 <= f < FinePerStep.  One "step" is the solver's step_size (0.1) and   *)
(* one "fine" unit is half of demand_set's tolerance (1e-9), so that two   *)
(* values can differ by less than the tolerance without being equal.       *)
(* Arithmetic is exact: the rounding noise of f64 (about 1e-16 per         *)
(* addition) is not modelled.                                              *)
(*                                                                         *)
(* Goods.  A Good is modelled by its id (a natural number); the display    *)
(* name is left out.  A Bundle is a set of good ids.                       *)
(***************************************************************************)
EXTENDS Integers, Sequences, FiniteSets, TLC

VARIABLES
    agents,      \* input: the agent sequence (records made by Agent_new / add_preference)
    goods,       \* input: the goods sequence (good ids)
    epsilon,     \* input: BRACEMechanism.epsilon
    allocation,  \* Allocation.assignments: agent id -> bundle
    pc,          \* position in run(): "search", "round_end", "prices", "verify", "done"
    i,           \* improve_allocation: outer loop index (1-based)
    j,           \* improve_allocation: inner loop index (1-based)
    improved,    \* improve_allocation: the local `improved`
    iterations,  \* compute_allocation: rounds of the search completed
    prices,      \* compute_equilibrium_prices: PriceVector.prices, good id -> number
    piter,       \* compute_equilibrium_prices: rounds whose changes were applied
    result,      \* AuctionResult (the three flags and the welfare), set by run()
    d_agent,     \* demand_set evaluation: the agent argument
    d_prices,    \* demand_set evaluation: the price vector (self)
    d_out,       \* demand_set evaluation: the returned Vec<Bundle>
    d_pc,        \* demand_set evaluation: "idle", "call", "ret"
    p_agents,    \* second call of compute_equilibrium_prices: its agent sequence
    p_prices,    \* second call: PriceVector.prices
    p_piter,     \* second call: rounds whose changes were applied
    p_pc         \* second call: "idle", "prices", "ret"

vars == <<agents, goods, epsilon, allocation, pc, i, j, improved, iterations,
          prices, piter, result, d_agent, d_prices, d_out, d_pc,
          p_agents, p_prices, p_piter, p_pc>>

runVars == <<agents, goods, epsilon, allocation, pc, i, j, improved, iterations,
             prices, piter, result>>

demandVars == <<d_agent, d_prices, d_out, d_pc>>

permVars == <<p_agents, p_prices, p_piter, p_pc>>

----------------------------------------------------------------------------
(* Program constants *)

\* brace.rs:38  let max_iterations = 100;
max_iterations == 100

\* pricing.rs:86  let max_iterations = 1000;
price_max_iterations == 1000

\* pricing.rs:87  step_size = 0.1, in fine units of 0.5e-9
FinePerStep == 200000000

\* pricing.rs:50  the tolerance 1e-9, in fine units of 0.5e-9
FineTol == 2

----------------------------------------------------------------------------
(* Fixed-point numbers <<t, f>> = t * 0.1 + f * 0.5e-9, 0 <= f < FinePerStep *)

Norm(t, f) == <<t + (f \div FinePerStep), f % FinePerStep>>

Zero == <<0, 0>>

\* 1.0
One == <<10, 0>>

\* pricing.rs:87
step_size == <<1, 0>>

\* pricing.rs:50
Tolerance == <<0, FineTol>>

NumAdd(x, y) == Norm(x[1] + y[1], x[2] + y[2])

NumSub(x, y) == Norm(x[1] - y[1], x[2] - y[2])

NumLT(x, y) == x[1] < y[1] \/ (x[1] = y[1] /\ x[2] < y[2])

NumGT(x, y) == NumLT(y, x)

NumAbs(x) == IF NumLT(x, Zero) THEN NumSub(Zero, x) ELSE x

\* `count as f64`
NumOfInt(n) == <<10 * n, 0>>

----------------------------------------------------------------------------
(* types.rs: BundleKey, Agent, Allocation *)

\* The ids of a set, as the ascending sequence Vec::sort makes of them.
RECURSIVE SortedIds(_)
SortedIds(S) ==
    IF S = {} THEN <<>>
    ELSE LET m == CHOOSE x \in S : \A y \in S : x <= y
         IN <<m>> \o SortedIds(S \ {m})

\* types.rs:22-26  BundleKey::from_bundle
from_bundle(bundle) == SortedIds(bundle)

\* types.rs:43-50  Agent::new
Agent_new(id, endowment) ==
    [id |-> id, endowment |-> endowment, preferences |-> <<>>, bundles |-> <<>>]

\* types.rs:53-57  Agent::add_preference: HashMap::insert replaces the value of
\* a key already present; the bundle is pushed in either case.
add_preference(agent, bundle, value) ==
    [agent EXCEPT
        !.preferences = (from_bundle(bundle) :> value) @@ @,
        !.bundles = Append(@, bundle)]

\* An agent built by Agent::new followed by add_preference for each
\* registration <<bundle, value>> of regs, in order.
RECURSIVE AddFrom(_, _, _)
AddFrom(agent, regs, k) ==
    IF k > Len(regs) THEN agent
    ELSE AddFrom(add_preference(agent, regs[k][1], regs[k][2]), regs, k + 1)

AddAll(agent, regs) == AddFrom(agent, regs, 1)

\* types.rs:60-63  Agent::preference
preference(agent, bundle) ==
    LET key == from_bundle(bundle)
    IN IF key \in DOMAIN agent.preferences THEN agent.preferences[key] ELSE Zero

\* types.rs:66-68  Agent::prefers
prefers(agent, bundle1, bundle2) ==
    NumGT(preference(agent, bundle1), preference(agent, bundle2))

\* types.rs:71-73  Agent::preference_bundles
preference_bundles(agent) == agent.bundles

\* types.rs:83-87  Allocation::new
Allocation_new == <<>>

\* types.rs:89-91  Allocation::assign
assign(alloc, agent_id, bundle) == (agent_id :> bundle) @@ alloc

\* types.rs:93-95  Allocation::get_bundle is Some
has_bundle(alloc, agent_id) == agent_id \in DOMAIN alloc

\* types.rs:93-95  Allocation::get_bundle, when it is Some
get_bundle(alloc, agent_id) == alloc[agent_id]

----------------------------------------------------------------------------
(* pricing.rs: PriceVector *)

\* pricing.rs:11-15  PriceVector::new
PriceVector_new == <<>>

\* pricing.rs:21-23  PriceVector::set_price
set_price(pv, good_id, price) == (good_id :> price) @@ pv

\* pricing.rs:25-27  PriceVector::get_price
get_price(pv, good_id) == IF good_id \in DOMAIN pv THEN pv[good_id] ELSE Zero

\* pricing.rs:30-32  PriceVector::bundle_price
RECURSIVE bundle_price(_, _)
bundle_price(pv, bundle) ==
    IF bundle = {} THEN Zero
    ELSE LET g == CHOOSE x \in bundle : TRUE
         IN NumAdd(get_price(pv, g), bundle_price(pv, bundle \ {g}))

\* pricing.rs:35-37  PriceVector::net_utility
net_utility(pv, agent, bundle) ==
    NumSub(preference(agent, bundle), bundle_price(pv, bundle))

\* pricing.rs:44-53  the loop of demand_set from its k-th bundle on.  best is
\* <<>> for f64::NEG_INFINITY and <<u>> for a finite best_utility u.
RECURSIVE demand_loop(_, _, _, _, _)
demand_loop(pv, agent, k, best, demand) ==
    IF k > Len(preference_bundles(agent)) THEN demand
    ELSE LET bundle == preference_bundles(agent)[k]
             utility == net_utility(pv, agent, bundle)
         IN IF best = <<>> \/ NumGT(utility, best[1])
            THEN demand_loop(pv, agent, k + 1, <<utility>>, <<bundle>>)
            ELSE IF NumLT(NumAbs(NumSub(utility, best[1])), Tolerance)
            THEN demand_loop(pv, agent, k + 1, best, Append(demand, bundle))
            ELSE demand_loop(pv, agent, k + 1, best, demand)

\* pricing.rs:40-56  PriceVector::demand_set
demand_set(pv, agent) == demand_loop(pv, agent, 1, <<>>, <<>>)

----------------------------------------------------------------------------
(* pricing.rs: compute_equilibrium_prices, one round *)

\* pricing.rs:98-101  the closure of `demand.iter().any(..)`: same length and
\* every good of b contained in the allocated bundle.
same_bundle(b, allocated_bundle) ==
    /\ Cardinality(b) = Cardinality(allocated_bundle)
    /\ \A g \in b : g \in allocated_bundle

\* pricing.rs:95-101  in_demand for one agent under the prices pv
in_demand(pv, agent, alloc) ==
    LET demand == demand_set(pv, agent)
    IN \E k \in 1..Len(demand) : same_bundle(demand[k], get_bundle(alloc, agent.id))

\* pricing.rs:93-104  the agents of the scan that raise prices: those with
\* an allocation whose allocated bundle is not in their demand set under pv
raisers_all(pv, ags, alloc) ==
    {k \in 1..Len(ags) : has_bundle(alloc, ags[k].id)}

raisers(pv, ags, alloc) ==
    {k \in 1..Len(ags) :
        has_bundle(alloc, ags[k].id) /\ ~in_demand(pv, ags[k], alloc)}

\* n additions of x to 0.0
NumTimes(n, x) == Norm(n * x[1], n * x[2])

\* pricing.rs:90-111  the map price_changes after the agent scan of a round:
\* an entry for every good of a raiser's allocated bundle, step_size added
\* to it once for each raiser whose allocated bundle contains the good.
round_changes(pv, ags, alloc) ==
    LET rs == raisers(pv, ags, alloc)
    IN [g \in UNION {get_bundle(alloc, ags[k].id) : k \in rs} |->
          NumTimes(Cardinality({k \in rs : g \in get_bundle(alloc, ags[k].id)}),
                   step_size)]

\* pricing.rs:114  price_changes.values().map(abs).fold(0.0, f64::max)
max_change(price_changes) ==
    LET vals == {NumAbs(price_changes[g]) : g \in DOMAIN price_changes} \cup {Zero}
    IN CHOOSE m \in vals : \A v \in vals : ~NumGT(v, m)

\* pricing.rs:115  the convergence test
converged_at_most(price_changes, eps) == ~NumGT(max_change(price_changes), eps)

converged(price_changes, eps) == NumLT(max_change(price_changes), eps)

\* pricing.rs:120-123  apply the changes of the round
apply_changes(pv, price_changes) ==
    [g \in (DOMAIN pv) \cup (DOMAIN price_changes) |->
        IF g \in DOMAIN price_changes
        THEN NumAdd(get_price(pv, g), price_changes[g])
        ELSE pv[g]]

\* pricing.rs:78-83 and brace.rs:32-35  prices set to 0.0 for every listed good
zero_prices(pv, gs) ==
    [g \in (DOMAIN pv) \cup {gs[k] : k \in 1..Len(gs)} |->
        IF \E k \in 1..Len(gs) : gs[k] = g THEN Zero ELSE pv[g]]

\* pricing.rs:95  the prices the demand set of an agent of the scan is
\* computed against: `prices`, which the scan does not change (the changes
\* accumulated so far are in price_changes only)
scan_prices_updated(pv, price_changes) ==
    [g \in (DOMAIN pv) \cup (DOMAIN price_changes) |->
        IF g \in DOMAIN price_changes
        THEN NumAdd(get_price(pv, g), price_changes[g])
        ELSE pv[g]]

scan_prices(pv, price_changes) == pv

\* pricing.rs:106-108  step_size added to the entry of every good of the
\* bundle, an absent entry starting at 0.0
add_step(price_changes, bundle) ==
    [g \in (DOMAIN price_changes) \cup bundle |->
        IF g \in bundle
        THEN NumAdd(IF g \in DOMAIN price_changes THEN price_changes[g] ELSE Zero,
                    step_size)
        ELSE price_changes[g]]

\* pricing.rs:93-111  the agent scan of a round from agent k on, in the order
\* of the agent sequence, on the map price_changes accumulated so far
RECURSIVE scan_changes(_, _, _, _, _)
scan_changes(pv, ags, alloc, k, price_changes) ==
    IF k > Len(ags) THEN price_changes
    ELSE IF /\ has_bundle(alloc, ags[k].id)
            /\ ~in_demand(scan_prices(pv, price_changes), ags[k], alloc)
    THEN scan_changes(pv, ags, alloc, k + 1,
                      add_step(price_changes, get_bundle(alloc, ags[k].id)))
    ELSE scan_changes(pv, ags, alloc, k + 1, price_changes)

----------------------------------------------------------------------------
(* brace.rs: the search and the verifiers *)

\* brace.rs:26-29  the endowment allocation
\* The last agent of ags with the id: the one whose assign is kept.
last_with_id(ags, id) ==
    CHOOSE k \in 1..Len(ags) :
        ags[k].id = id /\ \A m \in (k + 1)..Len(ags) : ags[m].id # id

endowments(alloc, ags) ==
    [id \in (DOMAIN alloc) \cup {ags[k].id : k \in 1..Len(ags)} |->
        IF \E k \in 1..Len(ags) : ags[k].id = id
        THEN ags[last_with_id(ags, id)].endowment
        ELSE alloc[id]]

\* brace.rs:99-103  the mutual strict consent of try_trade
either_better(agent1, agent2, bundle1, bundle2) ==
    prefers(agent1, bundle2, bundle1) \/ prefers(agent2, bundle1, bundle2)

both_better(agent1, agent2, bundle1, bundle2) ==
    prefers(agent1, bundle2, bundle1) /\ prefers(agent2, bundle1, bundle2)

\* brace.rs:95-97  the swapped allocation of try_trade
swap_keeping_first(alloc, agent1, agent2) ==
    assign(alloc, agent1.id, get_bundle(alloc, agent2.id))

swapped(alloc, agent1, agent2) ==
    LET bundle1 == get_bundle(alloc, agent1.id)
        bundle2 == get_bundle(alloc, agent2.id)
    IN assign(assign(alloc, agent1.id, bundle2), agent2.id, bundle1)

\* brace.rs:84-108  try_trade is Some
try_trade_some(agent1, agent2, alloc) ==
    /\ has_bundle(alloc, agent1.id)
    /\ has_bundle(alloc, agent2.id)
    /\ both_better(agent1, agent2, get_bundle(alloc, agent1.id),
                   get_bundle(alloc, agent2.id))

\* brace.rs:120-129  the agents with a bundle in both allocations
compared(ags, old, new) ==
    {k \in 1..Len(ags) : has_bundle(old, ags[k].id) /\ has_bundle(new, ags[k].id)}

\* brace.rs:111-134  is_pareto_improving: false as soon as an agent is worse
\* off (prefers old to new), else whether some agent is better off.  An agent
\* is never both, so the order of the scan does not show in the result.
is_pareto_improving(ags, old, new) ==
    /\ \A k \in compared(ags, old, new) :
          ~prefers(ags[k], get_bundle(old, ags[k].id), get_bundle(new, ags[k].id))
    /\ \E k \in compared(ags, old, new) :
          prefers(ags[k], get_bundle(new, ags[k].id), get_bundle(old, ags[k].id))

\* brace.rs:65-76  whether the pair (a, b) of the scan is committed
commits(ags, alloc, a, b) ==
    /\ try_trade_some(ags[a], ags[b], alloc)
    /\ is_pareto_improving(ags, alloc, swapped(alloc, ags[a], ags[b]))

\* brace.rs:65-76  the body of improve_allocation's inner loop for the pair
\* (a, b), on st = [allocation, improved]
scan_pair(ags, st, a, b) ==
    LET commit == commits(ags, st.allocation, a, b)
    IN [allocation |-> IF commit
                       THEN swapped(st.allocation, ags[a], ags[b])
                       ELSE st.allocation,
        improved |-> (st.improved \/ commit)]

\* brace.rs:64  the inner loop of row a over the columns lo..hi, in
\* ascending order.  The range is split in halves and the first half is
\* evaluated (the test on `first`) before the second starts from it, which
\* keeps the evaluation shallow for long agent sequences.
RECURSIVE scan_row(_, _, _, _, _)
scan_row(ags, st, a, lo, hi) ==
    IF lo > hi THEN st
    ELSE IF lo = hi THEN scan_pair(ags, st, a, lo)
    ELSE LET mid == (lo + hi) \div 2
             first == scan_row(ags, st, a, lo, mid)
         IN IF first.improved \in BOOLEAN
            THEN scan_row(ags, first, a, mid + 1, hi)
            ELSE first

\* brace.rs:63  the outer loop over the rows lo..hi, in ascending order
RECURSIVE scan_rows(_, _, _, _)
scan_rows(ags, st, lo, hi) ==
    IF lo > hi THEN st
    ELSE IF lo = hi THEN scan_row(ags, st, lo, lo + 1, Len(ags))
    ELSE LET mid == (lo + hi) \div 2
             first == scan_rows(ags, st, lo, mid)
         IN IF first.improved \in BOOLEAN
            THEN scan_rows(ags, first, mid + 1, hi)
            ELSE first

\* brace.rs:53-81  improve_allocation: the allocation after one whole scan
\* and whether a swap was committed
improve_allocation(ags, alloc) ==
    scan_rows(ags, [allocation |-> alloc, improved |-> FALSE], 1, Len(ags))

\* brace.rs:144-149  the number of assigned bundles that contain the good
holders(alloc, good) == Cardinality({id \in DOMAIN alloc : good \in alloc[id]})

\* brace.rs:138-156  verify_feasibility
verify_feasibility(alloc, gs, eps) ==
    \A k \in 1..Len(gs) :
        ~NumGT(NumOfInt(holders(alloc, gs[k])), NumAdd(One, eps))

\* brace.rs:160-175  verify_individual_rationality
verify_individual_rationality(ags, alloc) ==
    \A k \in 1..Len(ags) :
        has_bundle(alloc, ags[k].id) =>
            ~prefers(ags[k], ags[k].endowment, get_bundle(alloc, ags[k].id))

\* brace.rs:179-203  verify_ordinal_efficiency
verify_ordinal_efficiency(ags, alloc) ==
    \A a \in 1..Len(ags) : \A b \in (a + 1)..Len(ags) :
        (has_bundle(alloc, ags[a].id) /\ has_bundle(alloc, ags[b].id)) =>
            LET bi == get_bundle(alloc, ags[a].id)
                bj == get_bundle(alloc, ags[b].id)
            IN ~(prefers(ags[a], bj, bi) /\ prefers(ags[b], bi, bj))

\* auction.rs:49-58  calculate_welfare
\* The sum over the agents lo..hi, split in halves to keep the evaluation
\* shallow for long agent sequences.
RECURSIVE welfare_sum(_, _, _, _)
welfare_sum(ags, alloc, lo, hi) ==
    IF lo > hi THEN Zero
    ELSE IF lo = hi
    THEN (IF has_bundle(alloc, ags[lo].id)
          THEN preference(ags[lo], get_bundle(alloc, ags[lo].id)) ELSE Zero)
    ELSE LET mid == (lo + hi) \div 2
         IN NumAdd(welfare_sum(ags, alloc, lo, mid), welfare_sum(ags, alloc, mid + 1, hi))

calculate_welfare(ags, alloc) == welfare_sum(ags, alloc, 1, Len(ags))

----------------------------------------------------------------------------
(* The run of CombinatorialAuction::run as a state machine *)

NoResult ==
    [is_feasible |-> FALSE, is_individually_rational |-> FALSE,
     is_ordinal_efficient |-> FALSE, total_welfare |-> Zero]

\* The state at the entry of the search loop of compute_allocation
\* (brace.rs:26-38) for the input (ags, gs, eps).
RunInitAt(ags, gs, eps, start) ==
    /\ agents = ags
    /\ goods = gs
    /\ epsilon = eps
    /\ allocation = endowments(Allocation_new, ags)
    /\ pc = start
    /\ i = 1
    /\ j = 2
    /\ improved = FALSE
    /\ iterations = 0
    /\ prices = zero_prices(PriceVector_new, gs)
    /\ piter = 0
    /\ result = NoResult
    /\ d_agent = Agent_new(0, {})
    /\ d_prices = PriceVector_new
    /\ d_out = <<>>
    /\ d_pc = "idle"
    /\ p_agents = <<>>
    /\ p_prices = PriceVector_new
    /\ p_piter = 0
    /\ p_pc = "idle"

\* A call of PriceVector::demand_set on its own: pv.demand_set(agent)
DemandInit(pv, agent) ==
    /\ agents = <<>>
    /\ goods = <<>>
    /\ epsilon = Zero
    /\ allocation = Allocation_new
    /\ pc = "idle"
    /\ i = 1
    /\ j = 2
    /\ improved = FALSE
    /\ iterations = 0
    /\ prices = PriceVector_new
    /\ piter = 0
    /\ result = NoResult
    /\ d_agent = agent
    /\ d_prices = pv
    /\ d_out = <<>>
    /\ d_pc = "call"
    /\ p_agents = <<>>
    /\ p_prices = PriceVector_new
    /\ p_piter = 0
    /\ p_pc = "idle"

\* pricing.rs:40-56  demand_set returns
DemandCall ==
    /\ d_pc = "call"
    /\ d_out' = demand_set(d_prices, d_agent)
    /\ d_pc' = "ret"
    /\ UNCHANGED <<d_agent, d_prices>>
    /\ UNCHANGED runVars
    /\ UNCHANGED permVars

NextDemand == DemandCall

\* The scan starts at the pair (1, 2); it has no pair for fewer than two agents.
RunInit(ags, gs, eps) ==
    RunInitAt(ags, gs, eps, IF Len(ags) >= 2 THEN "search" ELSE "round_end")

\* brace.rs:63-78  one pair (i, j) of improve_allocation's scan: try_trade,
\* the Pareto re-check, the commit, and the step to the next pair.
TryPair ==
    /\ pc = "search"
    /\ LET st == scan_pair(agents, [allocation |-> allocation, improved |-> improved], i, j)
       IN /\ allocation' = st.allocation
          /\ improved' = st.improved
    /\ IF j < Len(agents)
       THEN i' = i /\ j' = j + 1 /\ pc' = "search"
       ELSE IF i + 1 < Len(agents)
       THEN i' = i + 1 /\ j' = i + 2 /\ pc' = "search"
       ELSE i' = i /\ j' = j /\ pc' = "round_end"
    /\ UNCHANGED <<agents, goods, epsilon, iterations, prices, piter, result>>
    /\ UNCHANGED demandVars
    /\ UNCHANGED permVars

\* brace.rs:39-44  whether compute_allocation's loop runs another round after
\* a round that returned `improved`, `iterations` rounds having run before it
continues_always(round_improved, rounds_before) ==
    rounds_before + 1 < max_iterations

continues(round_improved, rounds_before) ==
    round_improved /\ rounds_before + 1 < max_iterations

\* brace.rs:39-47 and :80  improve_allocation returns `improved`; the loop of
\* compute_allocation either starts the next round or, at the first round
\* without a commit or after max_iterations rounds, goes on to
\* compute_equilibrium_prices (pricing.rs:78-83).
EndRound ==
    /\ pc = "round_end"
    /\ iterations' = iterations + 1
    /\ IF continues(improved, iterations)
       THEN /\ pc' = IF Len(agents) >= 2 THEN "search" ELSE "round_end"
            /\ prices' = prices
       ELSE /\ pc' = "prices"
            /\ prices' = zero_prices(PriceVector_new, goods)
    /\ i' = 1
    /\ j' = 2
    /\ improved' = FALSE
    /\ UNCHANGED <<agents, goods, epsilon, allocation, piter, result>>
    /\ UNCHANGED demandVars
    /\ UNCHANGED permVars

\* pricing.rs:89-124  one round of compute_equilibrium_prices: the agent
\* scan, the convergence test, and the application of the changes.
PriceRound ==
    /\ pc = "prices"
    /\ LET price_changes == round_changes(prices, agents, allocation)
       IN IF converged(price_changes, epsilon)
          THEN /\ pc' = "verify"
               /\ UNCHANGED <<prices, piter>>
          ELSE /\ prices' = apply_changes(prices, price_changes)
               /\ piter' = piter + 1
               /\ pc' = IF piter + 1 < price_max_iterations THEN "prices" ELSE "verify"
    /\ UNCHANGED <<agents, goods, epsilon, allocation, i, j, improved, iterations, result>>
    /\ UNCHANGED demandVars
    /\ UNCHANGED permVars

\* auction.rs:25-45  run(): the three verifiers and the welfare
Finish ==
    /\ pc = "verify"
    /\ result' =
         [is_feasible |-> verify_feasibility(allocation, goods, epsilon),
          is_individually_rational |-> verify_individual_rationality(agents, allocation),
          is_ordinal_efficient |-> verify_ordinal_efficiency(agents, allocation),
          total_welfare |-> calculate_welfare(agents, allocation)]
    /\ pc' = "done"
    /\ UNCHANGED <<agents, goods, epsilon, allocation, i, j, improved, iterations,
                   prices, piter>>
    /\ UNCHANGED demandVars
    /\ UNCHANGED permVars

Next == TryPair \/ EndRound \/ PriceRound \/ Finish

\* brace.rs:39-47  one iteration of compute_allocation's loop as a single
\* step: a whole improve_allocation and the loop's exit test.
Round ==
    /\ pc = "round"
    /\ LET st == improve_allocation(agents, allocation)
       IN /\ allocation' = st.allocation
          /\ improved' = st.improved
          /\ iterations' = iterations + 1
          /\ IF continues(st.improved, iterations)
             THEN pc' = "round" /\ prices' = prices
             ELSE pc' = "prices" /\ prices' = zero_prices(PriceVector_new, goods)
    /\ UNCHANGED <<agents, goods, epsilon, i, j, piter, result>>
    /\ UNCHANGED demandVars
    /\ UNCHANGED permVars

NextRounds == Round \/ PriceRound \/ Finish

----------------------------------------------------------------------------
(* Inputs *)

\* Bounds of the inputs
MaxAgents == 3

MaxValue == 2

\* Agent k of the bounded inputs: id k, endowed with the single good k, with
\* the singleton bundles {1}, .., {n} registered in this order, bundle {g}
\* at the value vals[g] * 0.1; a value of 0 leaves the bundle unregistered.
RECURSIVE SingletonRegs(_, _)
SingletonRegs(vals, g) ==
    IF g > Len(vals) THEN <<>>
    ELSE (IF vals[g] = 0 THEN <<>> ELSE << <<{g}, <<vals[g], 0>>>> >>)
         \o SingletonRegs(vals, g + 1)

MakeAgent(id, endowment, regs) == AddAll(Agent_new(id, endowment), regs)

SingletonAgent(k, vals) == MakeAgent(k, {k}, SingletonRegs(vals, 1))

Profiles(n) == [1..n -> [1..n -> 0..MaxValue]]

\* Bound of the values of the inputs with repeated ids
MaxIdValue == 1

\* The main specification, epsilon = 1.0:
\*  - up to MaxAgents agents with distinct ids, each endowed with its own
\*    good, every profile of values 0..MaxValue over the endowment bundles;
\*  - the same with every assignment of ids 1..n to the agents (ids may
\*    repeat) and values 0..MaxIdValue.
InitDistinct ==
    \E n \in 0..MaxAgents : \E prof \in Profiles(n) :
        RunInit([k \in 1..n |-> SingletonAgent(k, prof[k])],
                [k \in 1..n |-> k],
                One)

InitIds ==
    \E n \in 2..MaxAgents : \E ids \in [1..n -> 1..n] :
        \E prof \in [1..n -> [1..n -> 0..MaxIdValue]] :
            RunInit([k \in 1..n |-> MakeAgent(ids[k], {k}, SingletonRegs(prof[k], 1))],
                    [k \in 1..n |-> k],
                    One)

Init == InitDistinct \/ InitIds

Spec == Init /\ [][Next]_vars

\* Whether the agents of the input have pairwise distinct ids
DistinctIds ==
    \A a \in 1..Len(agents) : \A b \in 1..Len(agents) :
        agents[a].id = agents[b].id => a = b

----------------------------------------------------------------------------
(* A long search: LongAgents agents, agent k endowed with good k.  Agent k
   values its endowment at 0.1, the bundle {LongAgents} at 0.2 and the
   endowment of agent k - 1 at 0.3 (agent LongAgents values the endowment of
   agent LongAgents - 1 at 0.2).  The bundle {LongAgents} moves down the
   agent sequence by one agent in each round. *)

LongAgents == 102

LongRegs(k) ==
    IF k = LongAgents
    THEN << <<{k}, <<1, 0>>>>, <<{k - 1}, <<2, 0>>>> >>
    ELSE << <<{k}, <<1, 0>>>>, <<{LongAgents}, <<2, 0>>>> >>
         \o (IF k > 1 THEN << <<{k - 1}, <<3, 0>>>> >> ELSE <<>>)

InitLong ==
    RunInitAt([k \in 1..LongAgents |-> MakeAgent(k, {k}, LongRegs(k))],
              [k \in 1..LongAgents |-> k],
              One, "round")

SpecLong == InitLong /\ [][NextRounds]_vars

\* The runs of the main specification and the long search together.
NextAll == Next \/ Round

\* brace.rs:39-40  the loop of compute_allocation runs its next round: the
\* step a Round is, seen on the round counter alone (Round has no guard but
\* pc = "round" and is the only step that program point allows)
RoundCounted ==
    /\ pc = "round"
    /\ iterations' = iterations + 1

\* pricing.rs:89-124  the loop of compute_equilibrium_prices runs its next
\* round: the step a PriceRound is, seen on the program point and the round
\* counter alone (PriceRound has no guard but pc = "prices")
PriceRoundCounted ==
    /\ pc = "prices"
    /\ \/ pc' = "verify" /\ piter' \in {piter, piter + 1}
       \/ pc' = "prices" /\ piter' = piter + 1

\* run() is sequential code: a step that can be taken is taken, which is
\* weak fairness of each step.  For the two whole-round steps the condition
\* is stated on the counters, where the step is visible and its enabling
\* condition is the program point.
SpecFair ==
    /\ Init \/ InitLong
    /\ [][NextAll]_vars
    /\ WF_vars(TryPair)
    /\ WF_vars(EndRound)
    /\ WF_vars(Finish)
    /\ WF_<<pc, piter>>(PriceRoundCounted)
    /\ WF_iterations(RoundCounted)

----------------------------------------------------------------------------
(* Inputs of the price solver: small catalogs over two goods, degenerate
   inputs, and a ring of three agents with preferences over pairs of goods
   (the shape of the example of main.rs). *)

MaxCatalog == 2

MaxPriceValue == 2

\* 0.01, the epsilon of the repository's tests and example
EpsTest == <<0, FinePerStep \div 10>>

\* 0.15
EpsWide == <<1, FinePerStep \div 2>>

\* The sequences of at most n elements of S
SeqUpTo(S, n) == UNION {[1..m -> S] : m \in 0..n}

\* Catalogs of at most MaxCatalog registrations of the bundles {1} and {2}
\* at the values 0.1 .. MaxPriceValue * 0.1
Catalogs ==
    SeqUpTo({<<{g}, <<v, 0>>>> : g \in 1..2, v \in 1..MaxPriceValue}, MaxCatalog)

InitCatalogs ==
    \E n \in 0..2 : \E cat \in [1..n -> Catalogs] : \E eps \in {EpsTest, EpsWide} :
        RunInit([k \in 1..n |-> MakeAgent(k, {k}, cat[k])], <<1, 2>>, eps)

\* Agents with empty catalogs, endowed with nothing, with their own good or
\* with good 1; an empty, a short and a full goods list.
InitDegenerate ==
    \E n \in 0..2 : \E endow \in [1..n -> {0, 1, 2}] :
        \E gs \in {<<>>, <<1>>, <<1, 2>>} : \E eps \in {Zero, EpsTest, EpsWide} :
            RunInit([k \in 1..n |->
                        Agent_new(k, IF endow[k] = 0 THEN {}
                                     ELSE IF endow[k] = 1 THEN {k} ELSE {1})],
                    gs, eps)

\* Agent k of the ring is endowed with good k and registers, in this order,
\* the pair of the two other goods at pair * 0.1 (unless pair = 0) and its
\* endowment at own * 0.1.
RingAgent(k, own, pair) ==
    MakeAgent(k, {k},
              (IF pair = 0 THEN <<>> ELSE << <<(1..3) \ {k}, <<pair, 0>>>> >>)
              \o << <<{k}, <<own, 0>>>> >>)

InitRing ==
    \E own \in [1..3 -> 1..MaxPriceValue] :
        \E pair \in [1..3 -> 0..(MaxPriceValue + 1)] :
            RunInit([k \in 1..3 |-> RingAgent(k, own[k], pair[k])], <<1, 2, 3>>, EpsTest)

\* Two agents whose endowments overlap: agent 1 holds {1}, agent 2 holds
\* {1, 2}; catalogs over these two bundles.
OverlapCatalogs ==
    SeqUpTo({<<b, <<v, 0>>>> : b \in {{1}, {1, 2}}, v \in 1..MaxPriceValue}, MaxCatalog)

InitOverlap ==
    \E cat \in [1..2 -> OverlapCatalogs] : \E eps \in {EpsWide, One} :
        RunInit(<<MakeAgent(1, {1}, cat[1]), MakeAgent(2, {1, 2}, cat[2])>>, <<1, 2>>, eps)

InitPrices == InitCatalogs \/ InitDegenerate \/ InitRing \/ InitOverlap

SpecPrices == InitPrices /\ [][Next]_vars

\* One or two agents with small catalogs, epsilon 0.0 among the tolerances;
\* SpecEps has these inputs, the ring and the overlapping endowments.
InitEps ==
    \E n \in 1..2 : \E cat \in [1..n -> Catalogs] : \E eps \in {Zero, EpsTest, EpsWide} :
        RunInit([k \in 1..n |-> MakeAgent(k, {k}, cat[k])], <<1, 2>>, eps)

SpecEps == (InitEps \/ InitRing \/ InitOverlap) /\ [][Next]_vars

----------------------------------------------------------------------------
(* A second call of compute_equilibrium_prices after run() has returned: the
   same goods, allocation and epsilon, the agents in another order.  Its
   rounds scan the agents one after the other (scan_changes). *)

\* The agent sequences that are the agents ags in some order
Reorderings(ags) ==
    {[k \in 1..Len(ags) |-> ags[f[k]]] :
        f \in {h \in [1..Len(ags) -> 1..Len(ags)] :
                  \A a, b \in 1..Len(ags) : h[a] = h[b] => a = b}}

\* pricing.rs:72-87  compute_equilibrium_prices is called: zero prices
PermCall ==
    /\ pc = "done"
    /\ p_pc = "idle"
    /\ p_agents' \in Reorderings(agents)
    /\ p_prices' = zero_prices(PriceVector_new, goods)
    /\ p_piter' = 0
    /\ p_pc' = "prices"
    /\ UNCHANGED runVars
    /\ UNCHANGED demandVars

\* pricing.rs:89-124  one round of the second call
PermRound ==
    /\ p_pc = "prices"
    /\ LET price_changes == scan_changes(p_prices, p_agents, allocation, 1, <<>>)
       IN IF converged(price_changes, epsilon)
          THEN /\ p_pc' = "ret"
               /\ UNCHANGED <<p_prices, p_piter>>
          ELSE /\ p_prices' = apply_changes(p_prices, price_changes)
               /\ p_piter' = p_piter + 1
               /\ p_pc' = IF p_piter + 1 < price_max_iterations THEN "prices" ELSE "ret"
    /\ UNCHANGED p_agents
    /\ UNCHANGED runVars
    /\ UNCHANGED demandVars

NextPerm == Next \/ PermCall \/ PermRound

\* Bound of the values of the inputs of the second call
MaxPermValue == 2

\* The ring with every endowment at 0.1, and the overlapping endowments with
\* the tolerances 0.01 and 0.15
InitPerm ==
    \/ \E pair \in [1..3 -> 0..MaxPermValue] :
          RunInit([k \in 1..3 |-> RingAgent(k, 1, pair[k])], <<1, 2, 3>>, EpsTest)
    \/ \E cat \in [1..2 -> OverlapCatalogs] : \E eps \in {EpsTest, EpsWide} :
          RunInit(<<MakeAgent(1, {1}, cat[1]), MakeAgent(2, {1, 2}, cat[2])>>,
                  <<1, 2>>, eps)

SpecPerm == InitPerm /\ [][NextPerm]_vars

----------------------------------------------------------------------------
(* Inputs of demand_set on its own: an agent with at most MaxDemandRegs
   registrations of the bundles {1} and {2} at values 0.1 + f * 0.5e-9,
   f in 0..MaxFine, and prices of 0 .. MaxPriceSteps * 0.1 for each good. *)

MaxDemandRegs == 3

MaxFine == 3

MaxPriceSteps == 1

InitDemand ==
    \E regs \in SeqUpTo({<<{g}, <<1, f>>>> : g \in 1..2, f \in 0..MaxFine}, MaxDemandRegs) :
        \E pv \in [1..2 -> {<<t, 0>> : t \in 0..MaxPriceSteps}] :
            DemandInit(pv, MakeAgent(1, {1}, regs))

SpecDemand == InitDemand /\ [][NextDemand]_vars

----------------------------------------------------------------------------
(* Properties *)

\* The endowment allocation of the input (brace.rs:26-29)
EndowmentAllocation == endowments(Allocation_new, agents)

\* The value agent k has for the bundle alloc assigns to its id
HeldValue(alloc, k) == preference(agents[k], get_bundle(alloc, agents[k].id))

SearchOver == pc \in {"prices", "verify", "done"}

\* alloc2 is alloc1 with the bundles of the ids x and y exchanged
Exchanged(alloc1, alloc2, x, y) ==
    /\ DOMAIN alloc2 = DOMAIN alloc1
    /\ alloc2[x] = alloc1[y]
    /\ alloc2[y] = alloc1[x]
    /\ \A z \in (DOMAIN alloc1) \ {x, y} : alloc2[z] = alloc1[z]

\* C1, state part: with pairwise distinct ids no agent values the bundle it
\* holds below its endowment, at any point of the run, and run() reports
\* is_individually_rational = true.
C1_State ==
    DistinctIds =>
        /\ \A k \in 1..Len(agents) :
              ~NumLT(HeldValue(allocation, k), preference(agents[k], agents[k].endowment))
        /\ pc = "done" => result.is_individually_rational

\* C1, step part: with pairwise distinct ids no step lowers the value any
\* agent has for the bundle it holds, and a step that changes the allocation
\* strictly raises the value of the two agents of the scanned pair and leaves
\* every other agent's bundle as it was.
C1_Step ==
    DistinctIds =>
        /\ \A k \in 1..Len(agents) :
              ~NumLT(HeldValue(allocation', k), HeldValue(allocation, k))
        /\ allocation' # allocation =>
              /\ pc = "search"
              /\ NumGT(HeldValue(allocation', i), HeldValue(allocation, i))
              /\ NumGT(HeldValue(allocation', j), HeldValue(allocation, j))
              /\ Exchanged(allocation, allocation', agents[i].id, agents[j].id)

\* C1: for inputs with pairwise distinct agent ids, each agent's value for
\* the bundle it holds never decreases during the search (a committed swap
\* strictly raises the value of both participants and changes no other
\* bundle), every agent's value for its bundle is >= its value for its
\* endowment, and run() reports is_individually_rational = true.
C1_IndividualRationality == []C1_State /\ [][C1_Step]_vars

\* C1 witness: a finished run with distinct ids in which some agent ended
\* with a bundle it values strictly above its endowment.
C1_Witness ==
    /\ pc = "done"
    /\ DistinctIds
    /\ result.is_individually_rational
    /\ \E k \in 1..Len(agents) :
          NumGT(HeldValue(allocation, k), preference(agents[k], agents[k].endowment))

\* C2: for agents with pairwise distinct ids the returned allocation has no
\* pair of agents that would both be strictly better off by exchanging their
\* bundles, and run() reports is_ordinal_efficient = true.
C2_OrdinalEfficiency ==
    (pc = "done" /\ DistinctIds) =>
        /\ result.is_ordinal_efficient
        /\ \A a \in 1..Len(agents) : \A b \in (a + 1)..Len(agents) :
              ~both_better(agents[a], agents[b],
                           get_bundle(allocation, agents[a].id),
                           get_bundle(allocation, agents[b].id))

C4_RearrangesAgentEndowments ==
    \A k \in 1..Len(agents) :
        Cardinality({id \in DOMAIN allocation : allocation[id] = agents[k].endowment})
          = Cardinality({m \in 1..Len(agents) : agents[m].endowment = agents[k].endowment})

\* C4, state part: the allocation has exactly one entry per distinct agent
\* id, every bundle is assigned as often as in the endowment allocation, and
\* every good has as many holders as in the endowment allocation.
C4_State ==
    /\ DOMAIN allocation = {agents[k].id : k \in 1..Len(agents)}
    /\ \A id \in DOMAIN allocation :
          Cardinality({x \in DOMAIN allocation : allocation[x] = allocation[id]})
            = Cardinality({x \in DOMAIN allocation :
                              EndowmentAllocation[x] = allocation[id]})
    /\ \A g \in UNION {allocation[id] : id \in DOMAIN allocation} :
          holders(allocation, g) = holders(EndowmentAllocation, g)

\* C4, step part: a step that changes the allocation exchanges the whole
\* bundles of two ids and changes nothing else.
C4_Step ==
    allocation' # allocation =>
        \E x \in DOMAIN allocation : \E y \in (DOMAIN allocation) \ {x} :
            Exchanged(allocation, allocation', x, y)

\* C4 amended: at every point of the search and in the result the
\* allocation has exactly one entry per distinct agent id and the bundles it
\* assigns are a rearrangement of the bundles of the endowment allocation
\* (which keeps, for each id, the endowment of the last agent with that id);
\* a swap only exchanges the whole bundles of two ids, so the number of ids
\* holding a good never changes from the endowment allocation.
C4_Rearrangement == []C4_State /\ [][C4_Step]_vars

\* C4 witness: a finished run whose allocation differs from the endowment
\* allocation after more than one round with a commit.
C4_Witness ==
    /\ pc = "done"
    /\ allocation # EndowmentAllocation
    /\ iterations >= 3

\* The inputs C5 is about
Degenerate ==
    \/ Len(agents) = 0
    \/ Len(goods) = 0
    \/ \A k \in 1..Len(agents) : preference_bundles(agents[k]) = <<>>

\* C5: for agents with empty catalogs (or an empty agent list, or an empty
\* goods list) the returned prices are all zero, the returned allocation is
\* the endowment allocation and the three verifier predicates are true.
C5_DegenerateTrivial ==
    (pc = "done" /\ Degenerate) =>
        /\ \A g \in DOMAIN prices : prices[g] = Zero
        /\ allocation = EndowmentAllocation
        /\ result.is_feasible
        /\ result.is_individually_rational
        /\ result.is_ordinal_efficient

\* The registered bundles of an agent, as a set
Registered(agent) ==
    {preference_bundles(agent)[k] : k \in 1..Len(preference_bundles(agent))}

\* Whether no registered bundle of the agent has a net utility above u
IsMaxUtility(pv, agent, u) ==
    \A b \in Registered(agent) : ~NumGT(net_utility(pv, agent, b), u)

\* The registered bundles whose net utility is within the tolerance of the
\* maximum net utility over the registered bundles
NearMaximal(pv, agent) ==
    {b \in Registered(agent) :
        \E top \in Registered(agent) :
            /\ IsMaxUtility(pv, agent, net_utility(pv, agent, top))
            /\ NumLT(NumAbs(NumSub(net_utility(pv, agent, b),
                                   net_utility(pv, agent, top))), Tolerance)}

\* C6: demand_set returns exactly the registered bundles whose net utility
\* is within 1e-9 of the maximum over the registered bundles, in whatever
\* order they were registered (and nothing for an empty catalog).
C6_DemandSetExact ==
    d_pc = "ret" => {d_out[k] : k \in 1..Len(d_out)} = NearMaximal(d_prices, d_agent)

\* C7: under the returned prices every agent's allocated bundle is in the
\* agent's demand set.
C7_PricesSupport ==
    pc = "done" =>
        \A k \in 1..Len(agents) :
            has_bundle(allocation, agents[k].id) => in_demand(prices, agents[k], allocation)

\* C8, state part: no price is negative, and every price is 0.0 until the
\* first round of the solver has applied its changes.
C8_State ==
    /\ \A g \in DOMAIN prices : ~NumLT(prices[g], Zero)
    /\ piter = 0 => \A g \in DOMAIN prices : prices[g] = Zero

\* C8, step part: no step lowers a price or drops one, and a step that
\* changes the price of a good is a solver round that adds a positive
\* multiple of step_size to it, the good being in the allocated bundle of an
\* agent whose allocated bundle is not in its demand set under the prices
\* before the step.
C8_Step ==
    /\ DOMAIN prices \subseteq DOMAIN prices'
    /\ \A g \in DOMAIN prices' :
          /\ ~NumLT(prices'[g], get_price(prices, g))
          /\ prices'[g] # get_price(prices, g) =>
                /\ pc = "prices"
                /\ \E m \in 1..Len(agents) :
                      prices'[g] = NumAdd(get_price(prices, g), NumTimes(m, step_size))
                /\ \E k \in 1..Len(agents) :
                      /\ has_bundle(allocation, agents[k].id)
                      /\ g \in get_bundle(allocation, agents[k].id)
                      /\ ~in_demand(prices, agents[k], allocation)

\* C8: every price starts at 0.0 and never decreases (so none is negative);
\* the only change made to a price is the addition of a positive multiple of
\* the 0.1 step to a good of an allocated bundle that is not in its holder's
\* demand set.
C8_PricesAscend == []C8_State /\ [][C8_Step]_vars

\* C8 witness: the solver stopped by its convergence test after rounds that
\* raised a price.
C8_Witness ==
    /\ pc = "done"
    /\ piter >= 1
    /\ piter < price_max_iterations
    /\ \E g \in DOMAIN prices : NumGT(prices[g], Zero)

\* Mutual strict preference of agents a and b for each other's bundle in alloc
Mutual(alloc, a, b) ==
    /\ prefers(agents[a], get_bundle(alloc, agents[b].id), get_bundle(alloc, agents[a].id))
    /\ prefers(agents[b], get_bundle(alloc, agents[a].id), get_bundle(alloc, agents[b].id))

\* C9, one step of the scan with pairwise distinct ids.
C9_Step ==
    (pc = "search" /\ DistinctIds) =>
        IF Mutual(allocation, i, j)
        THEN /\ is_pareto_improving(agents, allocation,
                                    swapped(allocation, agents[i], agents[j]))
             /\ allocation' # allocation
             /\ Exchanged(allocation, allocation', agents[i].id, agents[j].id)
             /\ improved'
        ELSE /\ allocation' = allocation
             /\ improved' = improved

\* C9: for pairwise distinct ids the swap of the scanned pair (i, j) is
\* committed if and only if i strictly prefers the bundle j holds at that
\* moment and j strictly prefers the bundle i holds at that moment (the
\* bundles as left by the swaps committed earlier in the round); the Pareto
\* re-check never rejects a swap that passed this test.
C9_CommitIffMutual == [][C9_Step]_vars

\* C9 witness: in the first round, after an earlier commit of the round, the
\* scanned pair has mutual strict preference for the bundles held now but
\* not for the bundles held when the round started.
C9_Witness ==
    /\ pc = "search"
    /\ DistinctIds
    /\ iterations = 0
    /\ improved
    /\ Mutual(allocation, i, j)
    /\ ~Mutual(EndowmentAllocation, i, j)

\* No two agents have mutual strict preference for each other's endowment
NoMutualForEndowments ==
    \A a \in 1..Len(agents) : \A b \in (a + 1)..Len(agents) :
        ~(/\ prefers(agents[a], agents[b].endowment, agents[a].endowment)
          /\ prefers(agents[b], agents[a].endowment, agents[b].endowment))

\* C10, last part as stated: when no pair of agents has mutual strict
\* preference for each other's endowment the search runs exactly one round
\* and returns the endowment allocation.
C10_OneRoundWithoutMutual ==
    (SearchOver /\ NoMutualForEndowments) =>
        (iterations = 1 /\ allocation = EndowmentAllocation)

\* C10, state part: at most max_iterations rounds; at least one; with
\* pairwise distinct ids and no mutual strict preference for endowments,
\* exactly one round and the endowment allocation.
C10_State ==
    /\ iterations <= max_iterations
    /\ SearchOver =>
          /\ iterations >= 1
          /\ (DistinctIds /\ NoMutualForEndowments) =>
                (iterations = 1 /\ allocation = EndowmentAllocation)

\* C10, step part: the step that ends a round counts it; the search goes on
\* to the price solver exactly when the round committed no swap or was round
\* max_iterations, and otherwise starts another round; once the search is
\* over no round runs and the allocation stays.
C10_Step ==
    /\ pc = "round_end" =>
          /\ iterations' = iterations + 1
          /\ SearchOver' <=> (~improved \/ iterations + 1 = max_iterations)
    /\ pc = "round" =>
          /\ iterations' = iterations + 1
          /\ SearchOver' <=> (~improved' \/ iterations + 1 = max_iterations)
          /\ improved' <=> (allocation' # allocation)
    /\ pc \notin {"round_end", "round"} => iterations' = iterations
    /\ SearchOver => (SearchOver' /\ allocation' = allocation)

\* C10 (amended by "pairwise distinct ids" in its last part): the search
\* terminates; it runs rounds until the first round without a commit and no
\* round after it, and never more than 100 rounds; with pairwise distinct ids
\* and no pair of agents with mutual strict preference for each other's
\* endowment it runs exactly one round and returns the endowment allocation.
C10_SearchTerminates == <>(pc = "done") /\ []C10_State /\ [][C10_Step]_vars

\* C10 witness: a finished run whose search was stopped by the cap of
\* max_iterations rounds.
C10_Witness ==
    /\ pc = "done"
    /\ iterations = max_iterations

\* The delta a round of the solver accumulates for good g under the prices
\* of the state: step_size for each agent whose allocated bundle contains g
\* and is not in the agent's demand set
RoundDelta(g) ==
    NumTimes(Cardinality({k \in 1..Len(agents) :
                             /\ has_bundle(allocation, agents[k].id)
                             /\ g \in get_bundle(allocation, agents[k].id)
                             /\ ~in_demand(prices, agents[k], allocation)}),
             step_size)

\* Whether the maximum delta of the round (0.0 when there is none) is below
\* epsilon
RoundBelowEpsilon ==
    /\ NumLT(Zero, epsilon)
    /\ \A g \in UNION {allocation[id] : id \in DOMAIN allocation} :
          NumLT(RoundDelta(g), epsilon)

\* Every agent's allocated bundle is in its demand set at zero prices
SatisfiedAtZero ==
    \A k \in 1..Len(agents) :
        has_bundle(allocation, agents[k].id) =>
            in_demand(zero_prices(PriceVector_new, goods), agents[k], allocation)

SolverOver == pc \in {"verify", "done"}

\* C11, second part as stated: for any non-negative epsilon, when every
\* agent's allocated bundle is in its demand set at zero prices the solver
\* terminates in its first round (no round's deltas are applied) with all
\* prices 0.0.
C11_FirstRoundAnyEpsilon ==
    (SolverOver /\ SatisfiedAtZero) =>
        (piter = 0 /\ \A g \in DOMAIN prices : prices[g] = Zero)

\* C11, state part: when every agent's allocated bundle is in its demand set
\* at zero prices the returned prices are all 0.0; the solver stopped in its
\* first round if epsilon > 0 and ran all its rounds if epsilon = 0.
C11_State ==
    (SolverOver /\ SatisfiedAtZero) =>
        /\ \A g \in DOMAIN prices : prices[g] = Zero
        /\ NumLT(Zero, epsilon) => piter = 0
        /\ epsilon = Zero => piter = price_max_iterations

\* C11, step part: a round whose maximum delta is below epsilon stops the
\* solver and leaves the prices as they were; any other round is applied
\* and the solver goes on unless it was round price_max_iterations; after
\* the solver stopped the prices stay.
C11_Step ==
    /\ pc = "prices" =>
          IF RoundBelowEpsilon
          THEN SolverOver' /\ prices' = prices /\ piter' = piter
          ELSE /\ piter' = piter + 1
               /\ \A g \in DOMAIN prices' :
                     prices'[g] = NumAdd(get_price(prices, g), RoundDelta(g))
               /\ SolverOver' <=> (piter + 1 = price_max_iterations)
    /\ SolverOver => prices' = prices

\* C11 (amended: epsilon > 0 in its second part): the solver stops at the
\* first round whose maximum accumulated per-good delta is below epsilon and
\* returns the prices as they were before that round; when every agent's
\* allocated bundle is in its demand set at zero prices the returned prices
\* are all 0.0, and the solver terminates in its first round if epsilon > 0
\* (for epsilon = 0 no maximum is below epsilon and it runs all its rounds).
C11_StopsBelowEpsilon == []C11_State /\ [][C11_Step]_vars

\* C11 witness: the solver stopped by its test after rounds that were
\* applied, at prices that are not all zero.
C11_Witness ==
    /\ pc = "verify"
    /\ piter >= 2
    /\ piter < price_max_iterations
    /\ \E g \in DOMAIN prices : NumGT(prices[g], Zero)

\* C12: for agents with pairwise distinct ids, a call of the solver with
\* the agents in any other order, on the same allocation, goods list and
\* epsilon, returns the same price for every good (and applies the same
\* number of rounds).
C12_OrderIndependent ==
    (p_pc = "ret" /\ DistinctIds) =>
        /\ \A g \in (DOMAIN prices) \cup (DOMAIN p_prices) :
              get_price(p_prices, g) = get_price(prices, g)
        /\ p_piter = piter

\* C12 witness: a call with the agents in another order that returned by its
\* convergence test after applied rounds, in one of which two agents
\* incremented the same good.
C12_Witness ==
    /\ p_pc = "ret"
    /\ DistinctIds
    /\ p_agents # agents
    /\ p_piter >= 1
    /\ p_piter < price_max_iterations
    /\ \E g \in DOMAIN p_prices :
          /\ holders(allocation, g) >= 2
          /\ ~NumLT(p_prices[g], NumTimes(2, step_size))

====
